---- MODULE Spec2Model ----
(***************************************************************************)
(* Model of the linear scale widget (src/lv_widgets/lv_linearscale.c):     *)
(* the extended data of one widget, its five setters, and the design       *)
(* callback with the tick/label drawing routine.                           *)
(***************************************************************************)
EXTENDS Integers, Sequences, FiniteSets, TLC

VARIABLES
    ext,      \* lv_linearscale_ext_t: the widget's extended data
    call,     \* the API call made last, with its arguments
    inv_cnt,  \* the lv_obj_invalidate calls that call made
    draw      \* the last render pass: mode, geometry read, draw calls, fault

vars == <<ext, call, inv_cnt, draw>>

(***************************************************************************)
(* Bounds of the explored inputs.                                          *)
(***************************************************************************)
\* set_value / set_range arguments are the multiples of ValueStep
ValueStep == 50
\* ... from 0 up to MaxValueMult * ValueStep
MaxValueMult == 2
\* set_scale line counts 0..MaxLineArg
MaxLineArg == 4
\* set_scale label counts 0..MaxLabelArg (and the default)
MaxLabelArg == 3

(***************************************************************************)
(* Program constants.                                                      *)
(***************************************************************************)
DefaultMin == 0
DefaultMax == 100
DefaultValue == 0
DefaultLineCnt == 26
DefaultLabelCnt == 6

LV_LINEARSCALE_ALIGN_TOP == 0
LV_LINEARSCALE_ALIGN_BOT == 1
LV_LINEARSCALE_ALIGN_LEFT == 2
LV_LINEARSCALE_ALIGN_RIGHT == 3

Values == {k * ValueStep : k \in 0..MaxValueMult}
LineArgs == 0..MaxLineArg
LabelArgs == (0..MaxLabelArg) \cup {DefaultLabelCnt}
Aligns == {LV_LINEARSCALE_ALIGN_TOP, LV_LINEARSCALE_ALIGN_BOT,
           LV_LINEARSCALE_ALIGN_LEFT, LV_LINEARSCALE_ALIGN_RIGHT}
\* NULL or one user formatter
FormatCbs == {"NULL", "cb"}

(***************************************************************************)
(* Integer arithmetic of the C build: division truncating toward zero,     *)
(* conversion to 16 bits.  int and int32_t are 32 bits wide; TLC evaluates *)
(* in 32 bits too and refuses a result that leaves them, so every int32    *)
(* expression explored below is exact.                                     *)
(***************************************************************************)
\* conversion to int16_t (lv_coord_t, level, label_counter)
ToInt16(x) == ((x + 32768) % 65536) - 32768

Abs(x) == IF x < 0 THEN -x ELSE x

\* C's a / b for b # 0
CDiv(a, b) == LET q == Abs(a) \div Abs(b)
              IN IF (a < 0) = (b < 0) THEN q ELSE -q

\* C's a % b for b # 0
CRem(a, b) == a - b * CDiv(a, b)

(***************************************************************************)
(* Setters, as functions from the extended data to the new extended data   *)
(* and the number of lv_obj_invalidate calls made.                         *)
(***************************************************************************)
InitExt == [line_cnt |-> DefaultLineCnt, label_cnt |-> DefaultLabelCnt,
            cur_value |-> DefaultValue, min_value |-> DefaultMin,
            max_value |-> DefaultMax, align |-> LV_LINEARSCALE_ALIGN_LEFT,
            format_cb |-> "NULL"]

Res(e, n) == [ext |-> e, inv |-> n]

\* set_value without the clamp against max_value
set_value_NoUpperClamp(e, value) ==
    IF e.cur_value = value THEN Res(e, 0)
    ELSE LET c2 == IF value < e.min_value THEN e.min_value ELSE value
         IN Res([e EXCEPT !.cur_value = c2], 1)

lv_linearscale_set_value(e, value) ==
    IF e.cur_value = value THEN Res(e, 0)
    ELSE LET c1 == IF value > e.max_value THEN e.max_value ELSE value
             c2 == IF c1 < e.min_value THEN e.min_value ELSE c1
         IN Res([e EXCEPT !.cur_value = c2], 1)

\* set_range that stores the bounds and leaves the value as it is
set_range_NoReclamp(e, min, max) ==
    IF e.min_value = min /\ e.max_value = max THEN Res(e, 0)
    ELSE Res([e EXCEPT !.max_value = max, !.min_value = min], 1)

\* set_range that re-clamps through set_value without storing the bound first
set_range_ViaSetValue(e, min, max) ==
    IF e.min_value = min /\ e.max_value = max THEN Res(e, 0)
    ELSE LET e1 == [e EXCEPT !.max_value = max, !.min_value = min]
             r == IF e1.cur_value > max \/ e1.cur_value < min
                  THEN lv_linearscale_set_value(e1, IF e1.cur_value > max THEN max
                                                    ELSE min)
                  ELSE Res(e1, 0)
         IN Res(r.ext, r.inv + 1)

lv_linearscale_set_range(e, min, max) ==
    IF e.min_value = min /\ e.max_value = max THEN Res(e, 0)
    ELSE LET e1 == [e EXCEPT !.max_value = max, !.min_value = min]
             r2 == IF e1.cur_value > max
                   THEN lv_linearscale_set_value([e1 EXCEPT !.cur_value = max], max)
                   ELSE Res(e1, 0)
             r3 == IF r2.ext.cur_value < min
                   THEN LET r == lv_linearscale_set_value(
                                     [r2.ext EXCEPT !.cur_value = min], min)
                        IN Res(r.ext, r2.inv + r.inv)
                   ELSE r2
         IN Res(r3.ext, r3.inv + 1)

\* set_scale without the line_cnt == 0 check
set_scale_NoZeroCheck(e, line_cnt, label_cnt) ==
    IF e.line_cnt = line_cnt /\ e.label_cnt = label_cnt THEN Res(e, 0)
    ELSE Res([e EXCEPT !.line_cnt = line_cnt, !.label_cnt = label_cnt], 1)

lv_linearscale_set_scale(e, line_cnt, label_cnt) ==
    IF line_cnt = 0 THEN Res(e, 0)
    ELSE IF e.line_cnt = line_cnt /\ e.label_cnt = label_cnt THEN Res(e, 0)
    ELSE Res([e EXCEPT !.line_cnt = line_cnt, !.label_cnt = label_cnt], 1)

\* set_alignment without the early return
set_alignment_NoEarlyReturn(e, dir) == Res([e EXCEPT !.align = dir], 1)

lv_linearscale_set_alignment(e, dir) ==
    IF e.align = dir THEN Res(e, 0)
    ELSE Res([e EXCEPT !.align = dir], 1)

lv_linearscale_set_formatter_cb(e, format_cb) ==
    Res([e EXCEPT !.format_cb = format_cb], 0)

lv_linearscale_get_value(e) == e.cur_value
lv_linearscale_get_min_value(e) == e.min_value
lv_linearscale_get_max_value(e) == e.max_value
lv_linearscale_get_line_count(e) == e.line_cnt
lv_linearscale_get_label_count(e) == e.label_cnt

(***************************************************************************)
(* Inputs of one render pass: the widget rectangle and the padding of the  *)
(* main part (read from the object at render time), the style values, and  *)
(* the build's treatment of undefined arithmetic.                          *)
(***************************************************************************)
Area(x1, y1, x2, y2) == [x1 |-> x1, y1 |-> y1, x2 |-> x2, y2 |-> y2]

Pad(l, r, t, b) == [left |-> l, right |-> r, top |-> t, bottom |-> b]

\* a widget of w x h pixels at (10, 20)
Widget(w, h) == Area(10, 20, 10 + w - 1, 20 + h - 1)

Geom(w, h, pad) == [coords |-> Widget(w, h), pad |-> pad]

Geoms == {Geom(150, 100, Pad(0, 0, 0, 0)), Geom(100, 150, Pad(0, 0, 0, 0)),
          Geom(100, 100, Pad(0, 0, 0, 0)), Geom(150, 100, Pad(30, 30, 2, 3))}

Style == [scale_width |-> 9, line_width |-> 2, end_line_width |-> 3,
          main_color |-> "main", grad_color |-> "grad", end_color |-> "end"]

\* what the build makes of a division by zero: "trap" stops the program,
\* "quiet" yields quotient 0 (and so remainder = dividend) and goes on
Builds == {"trap", "quiet"}

Modes == {"LV_DESIGN_COVER_CHK", "LV_DESIGN_DRAW_MAIN", "LV_DESIGN_DRAW_POST"}

\* a style colour, and the blend lv_color_mix(c1, c2, mix) of two
Plain(c) == [kind |-> "plain", c1 |-> c, c2 |-> c, mix |-> 255]
lv_color_mix(c1, c2, mix) == [kind |-> "mix", c1 |-> c1, c2 |-> c2, mix |-> mix % 256]

\* lv_area_get_width / lv_area_get_height
AreaWidth(a) == ToInt16(a.x2 - a.x1 + 1)
AreaHeight(a) == ToInt16(a.y2 - a.y1 + 1)

\* number of characters _lv_utils_num_to_str writes for n
RECURSIVE NumChars(_)
NumChars(n) == IF n < 0 THEN 1 + NumChars(-n)
               ELSE IF n < 10 THEN 1 ELSE 1 + NumChars(n \div 10)

\* the text of a label: the default conversion, or the user formatter's text
\* (the one formatter explored appends a unit character to the number)
LabelText(e, scale_act) ==
    IF e.format_cb = "NULL"
    THEN [by |-> "num_to_str", value |-> scale_act, len |-> NumChars(scale_act)]
    ELSE [by |-> e.format_cb, value |-> scale_act, len |-> NumChars(scale_act) + 1]

\* _lv_txt_get_size with a fixed-pitch 8 x 16 font
TxtGetSize(txt) == [x |-> 8 * txt.len, y |-> 16]

(***************************************************************************)
(* lv_linearscale_draw_scale                                               *)
(***************************************************************************)
\* hor decided by width > height
HorStrict(g) == AreaWidth(g.coords) > AreaHeight(g.coords)

\* bool hor
Hor(g) == AreaWidth(g.coords) >= AreaHeight(g.coords)

\* the indicator area
IndicArea(g) == Area(ToInt16(g.coords.x1 + g.pad.left), ToInt16(g.coords.y1 + g.pad.top),
                     ToInt16(g.coords.x2 - g.pad.right), ToInt16(g.coords.y2 - g.pad.bottom))

\* level scaled by line_cnt - 1
LevelOffByOne(e) ==
    ToInt16(CDiv((e.cur_value - e.min_value) * (e.line_cnt - 1),
                 e.max_value - e.min_value))

\* int16_t level, for a nonzero divisor
Level(e) ==
    ToInt16(CDiv((e.cur_value - e.min_value) * e.line_cnt,
                 e.max_value - e.min_value))

\* label_counter dividing by label_cnt
LabelCounterByCount(e) ==
    IF e.label_cnt > 1 THEN ToInt16(CDiv(e.line_cnt, e.label_cnt)) ELSE 0

\* int16_t label_counter
LabelCounter(e) ==
    IF e.label_cnt > 1 THEN ToInt16(CDiv(e.line_cnt, e.label_cnt - 1)) ELSE 0

\* int minor, for a nonzero label_counter
Minor(i, label_counter) == CRem(i, label_counter) # 0

\* lv_style_int_t tick_width
TickWidth(minor, scale_width) == IF minor THEN CDiv(scale_width, 2) ELSE scale_width

\* the tick's end points p1, p2
TickPoints(e, g, i, tick_width) ==
    LET a == IndicArea(g)
    IN IF Hor(g)
       THEN LET width == a.x2 - a.x1
                x == CDiv(CDiv(100 * width * i, e.line_cnt - 1), 100)
                px == ToInt16(a.x1 + x)
            IN IF e.align = LV_LINEARSCALE_ALIGN_TOP
               THEN [p1 |-> [x |-> px, y |-> a.y1],
                     p2 |-> [x |-> px, y |-> ToInt16(a.y1 + tick_width)]]
               ELSE [p1 |-> [x |-> px, y |-> ToInt16(a.y2 - tick_width)],
                     p2 |-> [x |-> px, y |-> a.y2]]
       ELSE LET height == a.y2 - a.y1
                y == CDiv(CDiv(100 * height * i, e.line_cnt - 1), 100)
                py == ToInt16(a.y2 - y)
            IN IF e.align = LV_LINEARSCALE_ALIGN_LEFT
               THEN [p1 |-> [x |-> a.x1, y |-> py],
                     p2 |-> [x |-> ToInt16(a.x1 + tick_width), y |-> py]]
               ELSE [p1 |-> [x |-> ToInt16(a.x2 - tick_width), y |-> py],
                     p2 |-> [x |-> a.x2, y |-> py]]

\* line_dsc after the colour selection of tick i
TickDsc(e, st, i, level, line_dsc) ==
    IF i >= level
    THEN [color |-> Plain(st.end_color), width |-> st.end_line_width]
    ELSE [line_dsc EXCEPT !.color = lv_color_mix(st.grad_color, st.main_color,
                                                 CDiv(255 * i, e.line_cnt))]

\* int32_t scale_act
ScaleAct(e, i) ==
    CDiv((e.max_value - e.min_value) * i, e.line_cnt - 1) + e.min_value

\* lv_area_t label_cord
LabelCord(e, g, pts, tick_width, label_size) ==
    LET p1 == pts.p1
        p2 == pts.p2
        x1 == IF Hor(g) THEN p1.x - CDiv(label_size.x, 2)
              ELSE IF e.align = LV_LINEARSCALE_ALIGN_LEFT THEN p2.x
              ELSE p1.x - label_size.x
        y1 == IF Hor(g)
              THEN IF e.align = LV_LINEARSCALE_ALIGN_TOP THEN p2.y + g.pad.bottom
                   ELSE p1.y - tick_width - CDiv(label_size.y, 8)
              ELSE p1.y - CDiv(label_size.y, 2)
    IN Area(ToInt16(x1), ToInt16(y1),
            ToInt16(ToInt16(x1) + label_size.x), ToInt16(ToInt16(y1) + label_size.y))

\* the draw calls of tick i: lv_draw_line, then lv_draw_label for a major tick
TickOps(e, g, i, minor, dsc) ==
    LET tw == TickWidth(minor, Style.scale_width)
        pts == TickPoints(e, g, i, tw)
        line == [op |-> "line", i |-> i, p1 |-> pts.p1, p2 |-> pts.p2,
                 color |-> dsc.color, width |-> dsc.width]
        txt == LabelText(e, ScaleAct(e, i))
        label == [op |-> "label", i |-> i, txt |-> txt,
                  cord |-> LabelCord(e, g, pts, tw, TxtGetSize(txt))]
    IN IF minor THEN <<line>> ELSE <<line, label>>

\* the for loop from tick i on; acc: the draw calls made so far and whether
\* a division by zero was met
RECURSIVE TickLoop(_, _, _, _, _, _, _)
TickLoop(e, g, build, level, i, line_dsc, acc) ==
    LET label_counter == LabelCounter(e)
    IN IF i >= e.line_cnt THEN acc
       ELSE IF label_counter = 0 /\ build = "trap"
       THEN [acc EXCEPT !.fault = "trap"]
       ELSE LET minor == IF label_counter = 0 THEN i # 0 ELSE Minor(i, label_counter)
                dsc == TickDsc(e, Style, i, level, line_dsc)
            IN TickLoop(e, g, build, level, i + 1, dsc,
                        [ops |-> acc.ops \o TickOps(e, g, i, minor, dsc),
                         fault |-> IF label_counter = 0 THEN "ignored" ELSE acc.fault])

lv_linearscale_draw_scale(e, g, build) ==
    LET ub == e.max_value = e.min_value
        level == IF e.max_value = e.min_value THEN 0 ELSE Level(e)
        start == [ops |-> <<>>, fault |-> IF ub THEN "ignored" ELSE "none"]
        line_dsc == [color |-> Plain(Style.main_color), width |-> Style.line_width]
    IN IF ub /\ build = "trap" THEN [ops |-> <<>>, fault |-> "trap"]
       ELSE IF e.line_cnt > 1 THEN TickLoop(e, g, build, level, 0, line_dsc, start)
       ELSE start

(***************************************************************************)
(* lv_linearscale_design                                                   *)
(***************************************************************************)
NoDraw == [mode |-> "none", geom |-> "none", ops |-> <<>>, fault |-> "none",
           res |-> "none"]

lv_linearscale_design(e, g, build, mode) ==
    IF mode = "LV_DESIGN_COVER_CHK"
    THEN [mode |-> mode, geom |-> "none", ops |-> <<>>, fault |-> "none",
          res |-> "LV_DESIGN_RES_NOT_COVER"]
    ELSE IF mode = "LV_DESIGN_DRAW_MAIN"
    THEN LET r == lv_linearscale_draw_scale(e, g, build)
         IN [mode |-> mode, geom |-> g,
             ops |-> <<[op |-> "rect", area |-> g.coords]>> \o r.ops,
             fault |-> r.fault,
             res |-> IF r.fault = "trap" THEN "none" ELSE "LV_DESIGN_RES_OK"]
    ELSE [mode |-> mode, geom |-> "none", ops |-> <<>>, fault |-> "none",
          res |-> "LV_DESIGN_RES_OK"]

(***************************************************************************)
(* The state machine: one action per API call.  call records the last      *)
(* call and what it saw, inv_cnt the lv_obj_invalidate calls it made, draw *)
(* the draw calls of the last render pass.                                 *)
(***************************************************************************)
Init ==
    /\ ext = InitExt
    /\ call = [op |-> "create"]
    /\ inv_cnt = 0
    /\ draw = NoDraw

\* a trapped program makes no further call
Running == draw.fault # "trap"

Setter(c, r) ==
    /\ Running
    /\ ext' = r.ext
    /\ inv_cnt' = r.inv
    /\ call' = c
    /\ draw' = NoDraw

SetValue(value) ==
    Setter([op |-> "set_value", value |-> value],
           lv_linearscale_set_value(ext, value))

SetRange(min, max) ==
    Setter([op |-> "set_range", min |-> min, max |-> max, old_value |-> ext.cur_value],
           lv_linearscale_set_range(ext, min, max))

SetScale(line_cnt, label_cnt) ==
    Setter([op |-> "set_scale", line_cnt |-> line_cnt, label_cnt |-> label_cnt],
           lv_linearscale_set_scale(ext, line_cnt, label_cnt))

SetAlignment(dir) ==
    Setter([op |-> "set_alignment", dir |-> dir],
           lv_linearscale_set_alignment(ext, dir))

SetFormatterCb(format_cb) ==
    Setter([op |-> "set_formatter_cb", format_cb |-> format_cb],
           lv_linearscale_set_formatter_cb(ext, format_cb))

Design(g, build, mode) ==
    /\ Running
    /\ draw' = lv_linearscale_design(ext, g, build, mode)
    /\ call' = [op |-> "design"]
    /\ inv_cnt' = 0
    /\ UNCHANGED ext

\* the pass meets a division by zero: in the level, or in i % label_counter
DividesByZero(e) ==
    \/ e.max_value = e.min_value
    \/ e.line_cnt > 1 /\ LabelCounter(e) = 0

\* the builds that differ on the pass
BuildsOf(e) == IF DividesByZero(e) THEN Builds ELSE {"quiet"}

\* the ranges set between render passes
DrawRanges == {<<DefaultMin, DefaultMax>>, <<ValueStep, DefaultMax>>, <<ValueStep, ValueStep>>,
               <<DefaultMax, DefaultMin>>}

SetterCall ==
    \/ \E value \in Values : SetValue(value)
    \/ \E dir \in Aligns : SetAlignment(dir)
    \/ \E format_cb \in FormatCbs : SetFormatterCb(format_cb)

DesignCall ==
    \/ \E g \in Geoms, build \in BuildsOf(ext) : Design(g, build, "LV_DESIGN_DRAW_MAIN")
    \/ \E mode \in Modes \ {"LV_DESIGN_DRAW_MAIN"} : Design("none", "quiet", mode)

\* the widget in use: setter calls and render passes
Next ==
    \/ SetterCall
    \/ \E r \in DrawRanges : SetRange(r[1], r[2])
    \/ \E line_cnt \in LineArgs, label_cnt \in LabelArgs : SetScale(line_cnt, label_cnt)
    \/ DesignCall

Spec == Init /\ [][Next]_vars

\* the setters alone, with every range of the explored values and the
\* least and greatest of the explored counts
NextState ==
    \/ SetterCall
    \/ \E min \in Values, max \in Values : SetRange(min, max)
    \/ \E line_cnt \in {0, 1, MaxLineArg}, label_cnt \in {0, MaxLabelArg} :
           SetScale(line_cnt, label_cnt)

SpecState == Init /\ [][NextState]_vars

(***************************************************************************)
(* Properties of the setters                                               *)
(***************************************************************************)
Clamp(v, min, max) == IF v > max THEN max ELSE IF v < min THEN min ELSE v

InRange(e) == e.min_value <= e.cur_value /\ e.cur_value <= e.max_value

\* C1, as stated: after every setter call, whatever the arguments of
\* set_range, min_value <= cur_value <= max_value.
C1_ValueInRange == InRange(ext)

\* C1, amended: the value lies in the range in every state whose range has
\* min_value <= max_value; after a set_range with min > max the value is
\* min_value (above max_value).
C1_ValueInOrderedRange ==
    /\ ext.min_value <= ext.max_value => InRange(ext)
    /\ ext.min_value > ext.max_value => ext.cur_value = ext.min_value

\* C1 witness: a set_value above the maximum has been clamped to it.
C1_Witness ==
    /\ call.op = "set_value"
    /\ call.value > ext.max_value
    /\ ext.min_value < ext.max_value
    /\ lv_linearscale_get_value(ext) = ext.max_value

\* C2: after set_range(min, max) with min <= max the getters return min, max
\* and the previous value clamped into [min, max].
C2_RangeReclamp ==
    (call.op = "set_range" /\ call.min <= call.max) =>
        /\ lv_linearscale_get_min_value(ext) = call.min
        /\ lv_linearscale_get_max_value(ext) = call.max
        /\ lv_linearscale_get_value(ext) = Clamp(call.old_value, call.min, call.max)

\* C2 witness: a value above the new maximum 50 has become 50.
C2_Witness ==
    /\ call.op = "set_range"
    /\ call.min <= call.max
    /\ call.max = 50
    /\ call.old_value > 50
    /\ lv_linearscale_get_value(ext) = 50

\* C3: set_scale(0, n) changes no field and requests no redraw, and
\* line_cnt >= 1 in every reachable state.
C3_ZeroLinesRejected ==
    /\ [](ext.line_cnt >= 1)
    /\ [][\A n \in LabelArgs : SetScale(0, n) => (ext' = ext /\ inv_cnt' = 0)]_vars

\* C3 witness: a set_scale(0, n) with n other than the stored label count
\* has returned.
C3_Witness ==
    /\ call.op = "set_scale"
    /\ call.line_cnt = 0
    /\ call.label_cnt # ext.label_cnt
    /\ inv_cnt = 0

\* the four setters that invalidate
Invalidating == {"set_value", "set_range", "set_scale", "set_alignment"}

\* the call just made passed the values already stored
SameArgs(e, c) ==
    \/ c.op = "set_value" /\ c.value = e.cur_value
    \/ c.op = "set_range" /\ c.min = e.min_value /\ c.max = e.max_value
    \/ c.op = "set_scale" /\ c.line_cnt = e.line_cnt /\ c.label_cnt = e.label_cnt
    \/ c.op = "set_alignment" /\ c.dir = e.align

\* C4, as stated: a call of the four invalidating setters requests a redraw
\* if and only if it changes a stored field; set_formatter_cb never does.
C4_RedrawIffChanged ==
    [][/\ call'.op \in Invalidating => ((inv_cnt' > 0) <=> (ext' # ext))
       /\ call'.op = "set_formatter_cb" => inv_cnt' = 0]_vars

\* C4, amended: a call that passes the stored values (set_value(get_value())
\* in particular) or a rejected set_scale(0, n) changes nothing and requests
\* no redraw; every call of the four setters that changes a field requests
\* one; set_formatter_cb never does; the one redraw request without a change
\* is that of a set_value whose argument differs from the stored value and
\* is clamped back to it.
C4_RedrawRule ==
    [][/\ call'.op \in Invalidating =>
             /\ ext' # ext => inv_cnt' > 0
             /\ SameArgs(ext, call') => (ext' = ext /\ inv_cnt' = 0)
             /\ (call'.op = "set_scale" /\ call'.line_cnt = 0)
                    => (ext' = ext /\ inv_cnt' = 0)
             /\ (inv_cnt' > 0 /\ ext' = ext)
                    => (call'.op = "set_value" /\ call'.value # ext.cur_value)
       /\ call'.op = "set_formatter_cb" => inv_cnt' = 0]_vars

\* C4 witness: set_value(get_value()) has returned without a redraw request.
C4_Witness ==
    /\ call.op = "set_value"
    /\ call.value = lv_linearscale_get_value(ext)
    /\ inv_cnt = 0

\* the previous value lies outside the range passed to set_range
OutsideNewRange(c) == c.old_value < c.min \/ c.old_value > c.max

\* C9, as stated: a set_range that leaves the previous value outside
\* [min, max] makes exactly two redraw requests (stated for min <= max,
\* where the interval is not empty).
C9_TwoRedraws ==
    (call.op = "set_range" /\ call.min <= call.max /\ OutsideNewRange(call))
        => inv_cnt = 2

\* C9, amended: a set_range that changes the range and leaves the previous
\* value outside [min, max] stores the re-clamped value itself (the nested
\* set_value finds it stored and returns early) and makes exactly one redraw
\* request; a set_range that passes the stored range makes none.
C9_OneRedraw ==
    [][(call'.op = "set_range" /\ OutsideNewRange(call')) =>
          /\ inv_cnt' = IF call'.min = ext.min_value /\ call'.max = ext.max_value
                        THEN 0 ELSE 1
          /\ call'.min <= call'.max =>
                 ext'.cur_value = Clamp(ext.cur_value, call'.min, call'.max)]_vars

\* C9 witness: a set_range has re-clamped a value that was above the new
\* maximum, with one redraw request.
C9_Witness ==
    /\ call.op = "set_range"
    /\ call.old_value > call.max
    /\ call.min <= call.max
    /\ ext.cur_value = call.max
    /\ inv_cnt = 1

(***************************************************************************)
(* Properties of the render pass                                           *)
(***************************************************************************)
Main == draw.mode = "LV_DESIGN_DRAW_MAIN"

\* the positions of the lv_draw_line and lv_draw_label calls in the pass
LineOps == {k \in DOMAIN draw.ops : draw.ops[k].op = "line"}
LabelOps == {k \in DOMAIN draw.ops : draw.ops[k].op = "label"}

\* the length of a tick along the axis it projects on
TickLen(o) == (o.p2.x - o.p1.x) + (o.p2.y - o.p1.y)

\* the draw call after the line at position k is the label of the same tick
Labelled(k) ==
    /\ k < Len(draw.ops)
    /\ draw.ops[k + 1].op = "label"
    /\ draw.ops[k + 1].i = draw.ops[k].i

\* a tick of a horizontal scale: upright, at its share of the indicator
\* area's width from the left edge
HorizontalTick(o, e, a) ==
    /\ o.p1.x = o.p2.x
    /\ o.p1.y # o.p2.y
    /\ o.p1.x = a.x1 + ((a.x2 - a.x1) * o.i) \div (e.line_cnt - 1)

\* a tick of a vertical scale: level, at its share of the indicator area's
\* height from the bottom edge
VerticalTick(o, e, a) ==
    /\ o.p1.y = o.p2.y
    /\ o.p1.x # o.p2.x
    /\ o.p1.y = a.y2 - ((a.y2 - a.y1) * o.i) \div (e.line_cnt - 1)

\* C5, as stated: the scale is horizontal if and only if the indicator area
\* (the rectangle minus the padding) has width >= height.
C5_OrientationByIndicator ==
    Main => \A k \in LineOps :
        LET a == IndicArea(draw.geom)
        IN IF a.x2 - a.x1 + 1 >= a.y2 - a.y1 + 1
           THEN HorizontalTick(draw.ops[k], ext, a)
           ELSE VerticalTick(draw.ops[k], ext, a)

\* C5, amended: the scale is horizontal if and only if the widget rectangle
\* itself (padding not subtracted) has width >= height; horizontal ticks are
\* placed from the left edge of the indicator area, vertical ticks from its
\* bottom edge.
C5_OrientationByWidget ==
    Main => \A k \in LineOps :
        LET c == draw.geom.coords
        IN IF c.x2 - c.x1 + 1 >= c.y2 - c.y1 + 1
           THEN HorizontalTick(draw.ops[k], ext, IndicArea(draw.geom))
           ELSE VerticalTick(draw.ops[k], ext, IndicArea(draw.geom))

\* C5 witness: a 150 x 100 widget whose indicator area is higher than wide
\* has been drawn with the ticks of a horizontal scale.
C5_Witness ==
    /\ Main
    /\ draw.geom = Geom(150, 100, Pad(30, 30, 2, 3))
    /\ LineOps # {}
    /\ \A k \in LineOps : HorizontalTick(draw.ops[k], ext, IndicArea(draw.geom))

\* floor(lineCount / (labelCount - 1)), for labelCount > 1
MajorStep(e) == e.line_cnt \div (e.label_cnt - 1)

\* C6: with line_cnt > 1, label_cnt > 1 and major step >= 1, a tick is drawn
\* at full length and followed by its label if i mod step = 0, and at half
\* length without a label otherwise; with 26 lines and 6 labels the major
\* ticks are 0, 5, 10, 15, 20, 25.
C6_MajorTicks ==
    /\ (Main /\ ext.line_cnt > 1 /\ ext.label_cnt > 1 /\ MajorStep(ext) >= 1) =>
          \A k \in LineOps :
              LET o == draw.ops[k]
              IN IF o.i % MajorStep(ext) = 0
                 THEN TickLen(o) = Style.scale_width /\ Labelled(k)
                 ELSE TickLen(o) = Style.scale_width \div 2 /\ ~Labelled(k)
    /\ (ext.line_cnt = 26 /\ ext.label_cnt = 6) =>
          {i \in 0..(ext.line_cnt - 1) : ~Minor(i, LabelCounter(ext))}
              = {0, 5, 10, 15, 20, 25}

\* C6 witness: a pass over 26 lines and 6 labels has labelled exactly the
\* ticks 0, 5, 10, 15, 20, 25.
C6_Witness ==
    /\ Main
    /\ ext.line_cnt = 26 /\ ext.label_cnt = 6
    /\ {draw.ops[k].i : k \in LabelOps} = {0, 5, 10, 15, 20, 25}
    /\ Cardinality(LineOps) = 26

\* floor((currentValue - minValue) * lineCount / (maxValue - minValue))
FillLevel(e) == ((e.cur_value - e.min_value) * e.line_cnt) \div (e.max_value - e.min_value)

\* C7: with min < max and the value in the range, the ticks below the fill
\* level are drawn in the gradient blend and the ticks from the level on in
\* the end colour with the end line width; range [0, 100], 26 lines and
\* value 50 give level 13.
C7_FillLevel ==
    /\ (Main /\ ext.min_value < ext.max_value /\ InRange(ext)) =>
          \A k \in LineOps :
              LET o == draw.ops[k]
              IN IF o.i < FillLevel(ext)
                 THEN o.color.kind = "mix"
                 ELSE o.color = Plain(Style.end_color)
                      /\ o.width = Style.end_line_width
    /\ (ext.min_value = 0 /\ ext.max_value = 100 /\ ext.cur_value = 50
        /\ ext.line_cnt = 26) => Level(ext) = 13

\* C7 witness: with range [0, 100], 26 lines and value 50, ticks 0..12 have
\* been drawn in the blend and ticks 13..25 in the end colour.
C7_Witness ==
    /\ Main
    /\ ext.min_value = 0 /\ ext.max_value = 100 /\ ext.cur_value = 50
    /\ ext.line_cnt = 26
    /\ {draw.ops[k].i : k \in {n \in LineOps : draw.ops[n].color.kind = "mix"}} = 0..12
    /\ {draw.ops[k].i : k \in {n \in LineOps : draw.ops[n].color = Plain(Style.end_color)}}
           = 13..25

\* C8, as stated: with line_cnt > 1 and label_cnt > 1 a pass draws exactly
\* label_cnt labels (stated for the passes that meet no division by zero).
C8_LabelCount ==
    (Main /\ draw.fault = "none" /\ ext.line_cnt > 1 /\ ext.label_cnt > 1)
        => Cardinality(LabelOps) = ext.label_cnt

\* tick i is major: index 0, and every multiple of the major step
MajorTick(e, i) ==
    \/ i = 0
    \/ e.label_cnt > 1 /\ MajorStep(e) >= 1 /\ i % MajorStep(e) = 0

\* the pass so far: the background rectangle, then per tick, in ascending
\* order, its line and, if the tick is major, its label
InEmissionOrder(e, ops) ==
    /\ Len(ops) >= 1
    /\ ops[1].op = "rect"
    /\ \A k \in 2..Len(ops) :
          \/ /\ ops[k].op = "line"
             /\ ops[k].i = Cardinality({n \in 2..(k - 1) : ops[n].op = "line"})
             /\ (k < Len(ops) /\ ops[k + 1].op = "label") <=> MajorTick(e, ops[k].i)
          \/ /\ ops[k].op = "label"
             /\ ops[k - 1].op = "line"
             /\ ops[k - 1].i = ops[k].i

\* C10, as stated: a main-draw pass emits the background rectangle, then for
\* line_cnt > 1 exactly line_cnt lines in ascending tick order, each followed
\* at once by its label if and only if the tick is major; for line_cnt = 1
\* the rectangle alone (stated for the states that meet the renderer's
\* assumptions max_value # min_value and label_cnt > 1).
C10_EmissionOrder ==
    (Main /\ ext.max_value # ext.min_value /\ ext.label_cnt > 1) =>
        /\ InEmissionOrder(ext, draw.ops)
        /\ ext.line_cnt = 1 => Len(draw.ops) = 1
        /\ ext.line_cnt > 1 => Cardinality(LineOps) = ext.line_cnt

\* The emission order of C10 on the passes that meet no division by zero.
EmissionOrderWhenDefined ==
    (Main /\ draw.fault = "none") =>
        /\ InEmissionOrder(ext, draw.ops)
        /\ ext.line_cnt = 1 => Len(draw.ops) = 1
        /\ ext.line_cnt > 1 => Cardinality(LineOps) = ext.line_cnt

\* the renderer's stated assumptions, and more than one label asked for
RendererAssumptions ==
    /\ ext.line_cnt >= 1
    /\ ext.max_value # ext.min_value
    /\ ext.label_cnt > 1

\* C11, as stated: in every state reached by setter calls that meets the
\* renderer's assumptions (line_cnt >= 1, max_value # min_value) and has
\* label_cnt > 1, a main-draw pass divides by no zero: max_value - min_value
\* in the level, label_counter in i % label_counter and line_cnt - 1 in the
\* tick position and label value are nonzero wherever they are evaluated.
C11_NoDivisionByZero ==
    (Main /\ RendererAssumptions) => draw.fault = "none"

\* What holds of C11's divisors: under the assumptions the level divisor is
\* nonzero and line_cnt - 1 is evaluated only inside the loop, where it is
\* positive; the one zero divisor is label_counter, when line_cnt > 1 is
\* smaller than label_cnt - 1.
DivisionByZeroOnlyInMajorStep ==
    (Main /\ RendererAssumptions /\ draw.fault # "none") =>
        /\ ext.line_cnt > 1
        /\ ext.line_cnt < ext.label_cnt - 1
        /\ LabelCounter(ext) = 0

====
